---------------------------- MODULE Spec2Model ----------------------------
(***************************************************************************)
(* A model of the travel-assistant agent of src/agent: the JSON-backed     *)
(* conversation memory (tools.py, MemoryTool), the conversation loop       *)
(* (agent.py, TravelAgent.run) with its artifact tracking wrappers, and    *)
(* the restricted command adapter (tools.py, TerminalTool).                *)
(*                                                                         *)
(* Texts (Python str) are sequences of one-character strings.  A Python    *)
(* call that may raise is an operator returning a record whose exc field   *)
(* is "none" or the name of the exception that leaves the call.            *)
(***************************************************************************)
EXTENDS Integers, Sequences, FiniteSets, TLC

VARIABLES
    file,           \* the memory file on disk (memory.json)
    disk,           \* how the file system answers a write of the memory file
    memory,         \* MemoryTool.memory: the value json.load returned, as updated since
    appended,       \* history: the turns add_conversation stored in this store, in order
    memop,          \* the last MemoryTool operation and what it returned or raised
    pc,             \* where TravelAgent.run stands: "idle" or "planning"
    user_input,     \* run's argument while a call is in progress
    enhanced_input, \* the text handed to the planner
    created_files,  \* TravelAgent.created_files
    produced,       \* history: paths the adapters saved to during the current run
    nTools,         \* tool calls the planner made in the current run
    invocations,    \* agent_executor.invoke calls made by the current run call
    hadFiles,       \* history: created_files was not empty when the current run was called
    ret,            \* what the last run call returned or raised, once it is over
    nRuns,          \* run calls started so far
    termop,         \* the last TerminalTool.execute call and its payload
    spawned,        \* history: the command texts handed to subprocess.run
    handler,        \* per worker thread of the bot: where its handle_message call stands
    received,       \* messages the bot has taken from the chat so far
    fs,             \* the files the file adapters see: absolute path -> file
    cwd,            \* the working directory the program was started in
    toolop,         \* the last adapter call: its arguments and what it returned or raised
    cli,            \* the command-line loop: where it stands and what the last line did
    forwarded,      \* history: the texts the loop handed to run_agent, in order
    dlv,            \* handle_message after run returned: where the delivery stands
    chat,           \* the messages this handle_message call has put in the chat, in order
    attempts,       \* history: what was done for each artifact, in order
    sess            \* a session of one front end: which one, and the turns it has handled

vars == <<file, disk, memory, appended, memop, pc, user_input, enhanced_input,
          created_files, produced, nTools, invocations, hadFiles, ret, nRuns, termop,
          spawned, handler, received, fs, cwd, toolop, cli, forwarded, dlv, chat,
          attempts, sess>>

memVars == <<file, disk, memory, appended, memop>>
runVars == <<pc, user_input, enhanced_input, created_files, produced, nTools,
             invocations, hadFiles, ret, nRuns>>
termVars == <<termop, spawned>>
botVars == <<handler, received>>
toolVars == <<fs, cwd, toolop>>
cliVars == <<cli, forwarded>>
dlvVars == <<dlv, chat, attempts>>
sessVars == <<sess>>
frontVars == <<botVars, toolVars, cliVars, dlvVars, sessVars>>

----------------------------------------------------------------------------
(* Bounds of the model *)

MaxAdds == 102          \* add_conversation calls in one behaviour of SpecMemory
MaxVaried == 1          \* the first and the last calls whose response is any of Replies
MaxRuns == 2            \* run calls in one behaviour of Spec
MaxToolCalls == 2       \* tool calls the planner makes in one run
MaxSpawned == 2         \* subprocesses started in one behaviour of SpecTerminal

(* Program constants *)

MAX_HISTORY == 100      \* tools.py:397  len(conversations) > 100 ... [-100:]
SUMMARY_LEN == 200      \* tools.py:392  agent_response[:200]
CONTEXT_TURNS == 5      \* tools.py:407  conversations[-5:]

----------------------------------------------------------------------------
(* Texts *)

Min(a, b) == IF a <= b THEN a ELSE b
Max(a, b) == IF a >= b THEN a ELSE b

\* s[:n]
Take(s, n) == SubSeq(s, 1, Min(n, Len(s)))

\* s[-n:]
LastN(s, n) == SubSeq(s, Max(1, Len(s) - n + 1), Len(s))

DigitChar(d) == <<"0", "1", "2", "3", "4", "5", "6", "7", "8", "9">>[d + 1]

RECURSIVE NumStr(_)
\* str(n) for a natural number
NumStr(n) == IF n < 10 THEN <<DigitChar(n)>>
             ELSE NumStr(n \div 10) \o <<DigitChar(n % 10)>>

RECURSIVE Join(_, _)
\* sep.join(parts)
Join(parts, sep) ==
    IF parts = <<>> THEN <<>>
    ELSE IF Len(parts) = 1 THEN parts[1]
    ELSE parts[1] \o sep \o Join(Tail(parts), sep)

RECURSIVE Flatten(_)
Flatten(ss) == IF ss = <<>> THEN <<>> ELSE ss[1] \o Flatten(Tail(ss))

NL == <<"\n">>


----------------------------------------------------------------------------
(* The memory document: what json.load returns and json.dump writes *)

\* One entry of "conversations".  kind "junk" stands for any JSON value
\* that is not an object with the keys user_query and summary.
Turn(q, r, s, ts) ==
    [kind |-> "turn", user_query |-> q, agent_response |-> r,
     summary |-> s, timestamp |-> ts]

Junk == [kind |-> "junk", user_query |-> <<>>, agent_response |-> <<>>,
         summary |-> <<>>, timestamp |-> <<>>]

\* The value under "conversations": a list, no such key, a value that is
\* not a list and is false in Python (null, 0, "", {}), or one that is not
\* a list and is true ("abc", 5, {"a": 1}).
ListOf(items) == [t |-> "list", items |-> items]
NotAList(t) == [t |-> t, items |-> <<>>]

\* top is "dict" for a JSON object and "other" for any other JSON value.
Document(top, convs, context) == [top |-> top, convs |-> convs, context |-> context]

\* {"conversations": [], "context": {}}
EmptyStore == Document("dict", ListOf(<<>>), "empty")

\* json.dump: the document as rows of text, one per entry
DumpRow(e) ==
    IF e.kind = "turn"
    THEN <<e.user_query, e.agent_response, e.summary, e.timestamp>>
    ELSE <<>>

Dump(mem) ==
    [top |-> mem.top, t |-> mem.convs.t,
     rows |-> [i \in 1..Len(mem.convs.items) |-> DumpRow(mem.convs.items[i])],
     context |-> mem.context]

\* json.load of a well-formed text
ParseRow(row) == IF row = <<>> THEN Junk ELSE Turn(row[1], row[2], row[3], row[4])

Parse(text) ==
    Document(text.top,
             [t |-> text.t, items |-> [i \in 1..Len(text.rows) |-> ParseRow(text.rows[i])]],
             text.context)

----------------------------------------------------------------------------
(* The memory file *)

\* kind: "missing" (os.path.exists is false), "unreadable" (open raises),
\* "badenc" (the bytes are not UTF-8), "badjson" (json.load raises), "json".
File(kind, text, mtime) == [kind |-> kind, text |-> text, mtime |-> mtime]

NoText == Dump(EmptyStore)

\* The body of the try of _load_memory
LoadBody(f) ==
    IF f.kind # "missing"
    THEN CASE f.kind = "unreadable" -> [exc |-> "PermissionError", val |-> EmptyStore]
           [] f.kind = "badenc" -> [exc |-> "UnicodeDecodeError", val |-> EmptyStore]
           [] f.kind = "badjson" -> [exc |-> "JSONDecodeError", val |-> EmptyStore]
           [] OTHER -> [exc |-> "none", val |-> Parse(f.text)]
    ELSE [exc |-> "none", val |-> EmptyStore]

\* A bug: only the JSON error is caught
LoadMemoryJSONErrorOnly(f) ==
    IF LoadBody(f).exc = "JSONDecodeError"
    THEN [exc |-> "none", val |-> EmptyStore]
    ELSE LoadBody(f)

\* MemoryTool._load_memory: except Exception returns the empty store
LoadMemory(f) ==
    IF LoadBody(f).exc # "none"
    THEN [exc |-> "none", val |-> EmptyStore]
    ELSE LoadBody(f)

\* MemoryTool.save_memory: the file afterwards and whether the write went
\* through.  On a read-only file open raises and the file is untouched; on
\* a full disk open truncates the file and json.dump fails part-way.
SaveMemory(mem, f, d) ==
    CASE d = "ok" -> [file |-> File("json", Dump(mem), f.mtime + 1), ok |-> TRUE]
      [] d = "readonly" -> [file |-> f, ok |-> FALSE]
      [] OTHER -> [file |-> File("badjson", NoText, f.mtime + 1), ok |-> FALSE]

\* str(os.path.getmtime(f) if os.path.exists(f) else "")
Timestamp(f) == IF f.kind # "missing" THEN NumStr(f.mtime) ELSE <<>>

\* A bug: the oldest entries are kept
TruncateKeepOldest(items) ==
    IF Len(items) > MAX_HISTORY THEN Take(items, MAX_HISTORY) ELSE items

\* A bug: one entry is dropped however many there are
TruncateDropOne(items) ==
    IF Len(items) > MAX_HISTORY THEN Tail(items) ELSE items

\* if len(conversations) > 100: conversations = conversations[-100:]
\* A bug: over the cap the new turn takes the place of the oldest
TruncateNewestFirst(items) ==
    IF Len(items) > MAX_HISTORY
    THEN <<items[Len(items)]>> \o SubSeq(items, 2, MAX_HISTORY)
    ELSE items

Truncate(items) ==
    IF Len(items) > MAX_HISTORY THEN LastN(items, MAX_HISTORY) ELSE items

\* A bug: one character too many is kept
SummaryOneMore(r) == Take(r, SUMMARY_LEN + 1)

\* summary or agent_response[:200]: every call the program makes leaves
\* the summary argument at None
Summary(r) == Take(r, SUMMARY_LEN)

\* MemoryTool.add_conversation: the exception that leaves the call, the
\* store and the file afterwards, the turn built, whether the save went through
AddConversation(mem, f, d, q, r) ==
    LET conversation == Turn(q, r, Summary(r), Timestamp(f))
        failed(e) == [exc |-> e, memory |-> mem, file |-> f, turn |-> conversation,
                      saved |-> FALSE]
    IN  CASE mem.top # "dict" -> failed("TypeError")
          [] mem.convs.t = "absent" -> failed("KeyError")
          [] mem.convs.t # "list" -> failed("AttributeError")
          [] OTHER ->
               LET new == [mem EXCEPT !.convs.items =
                              Truncate(Append(mem.convs.items, conversation))]
                   sv == SaveMemory(new, f, d)
               IN  [exc |-> "none", memory |-> new, file |-> sv.file,
                    turn |-> conversation, saved |-> sv.ok]

USER_PREFIX == <<"U", ":", " ">>    \* "Пользователь: "
AGENT_PREFIX == <<"A", ":", " ">>   \* "Агент: "

\* A bug: the full response is rendered
ContextPartsFullResponse(conv) ==
    <<USER_PREFIX \o conv.user_query, AGENT_PREFIX \o conv.agent_response>>

\* A bug: the summary is taken from the response again when rendering
ContextPartsRecomputed(conv) ==
    <<USER_PREFIX \o conv.user_query, AGENT_PREFIX \o Take(conv.agent_response, SUMMARY_LEN)>>

\* The two context_parts appended for one conversation
ContextParts(conv) ==
    <<USER_PREFIX \o conv.user_query, AGENT_PREFIX \o conv.summary>>

\* A bug: one turn too many
RecentSix(items) == LastN(items, CONTEXT_TURNS + 1)

\* conversations[-5:]
Recent(items) == LastN(items, CONTEXT_TURNS)

\* MemoryTool.get_context
GetContext(mem) ==
    CASE mem.top # "dict" -> [exc |-> "TypeError", val |-> <<>>]
      [] mem.convs.t = "absent" -> [exc |-> "KeyError", val |-> <<>>]
      [] mem.convs.t = "falsy" -> [exc |-> "none", val |-> <<>>]
      [] mem.convs.t = "truthy" -> [exc |-> "TypeError", val |-> <<>>]
      [] mem.convs.items = <<>> -> [exc |-> "none", val |-> <<>>]
      [] OTHER ->
           LET recent == Recent(mem.convs.items)
           IN  IF \E i \in 1..Len(recent) : recent[i].kind # "turn"
               THEN [exc |-> "TypeError", val |-> <<>>]
               ELSE [exc |-> "none",
                     val |-> Join(Flatten([i \in 1..Len(recent) |->
                                              ContextParts(recent[i])]), NL)]

----------------------------------------------------------------------------
(* Inputs *)

ShortReply == <<"o", "k">>
LongReply == [i \in 1..(SUMMARY_LEN + 1) |-> "x"]
Replies == {<<>>, ShortReply, LongReply}

\* The n-th utterance of a long session: "q0", "q1", ...
Q(n) == <<"q">> \o NumStr(n)

\* A turn already in the file when the program starts
OldTurn(i) == Turn(<<"h">> \o NumStr(i), ShortReply, Summary(ShortReply), <<"0">>)

OldTurns(n) == [i \in 1..n |-> OldTurn(i)]

\* Documents of the expected shape, by number of entries
StoredLens == {0, 2, CONTEXT_TURNS + 1, MAX_HISTORY - 1, MAX_HISTORY + 50}

\* Parseable documents of another shape: not an object, no "conversations",
\* "conversations" not a list, entries that are not turns
OddDocuments ==
    { Document("other", NotAList("absent"), "absent"),
      Document("dict", NotAList("absent"), "absent"),
      Document("dict", NotAList("falsy"), "empty"),
      Document("dict", NotAList("truthy"), "empty"),
      Document("dict", ListOf(<<Junk>> \o OldTurns(CONTEXT_TURNS)), "empty"),
      Document("dict", ListOf(<<OldTurn(1), Junk>>), "empty") }

\* A turn whose summary in the file is not the head of its response, and a
\* document that holds it
EditedTurn == Turn(<<"h", "0">>, ShortReply, <<"s">>, <<"0">>)
EditedDocument == Document("dict", ListOf(<<EditedTurn, OldTurn(1)>>), "empty")

\* Documents the conversation loop is started on
FewOddDocuments ==
    { Document("dict", NotAList("absent"), "absent"),
      Document("dict", NotAList("falsy"), "empty"),
      Document("dict", ListOf(<<OldTurn(1), Junk>>), "empty") }

FilesOf(kinds, lens, odd) ==
    { File(k, NoText, 0) : k \in kinds }
    \cup { File("json", Dump(Document("dict", ListOf(OldTurns(n)), "empty")), 0) : n \in lens }
    \cup { File("json", Dump(d), 0) : d \in odd }

Disks == {"ok", "readonly", "full"}

NoOp == [op |-> "none", exc |-> "none", src |-> "none", pre |-> 0,
         saved |-> FALSE, store |-> EmptyStore, text |-> <<>>]

\* kind: "returned" or "raised"; via: the path run took ("ok", "planner_exc"
\* when invoke raised, "ctx_exc" when get_context raised, "add_exc" when
\* add_conversation raised after the planner returned); stored: the turns
\* the call added to memory
NoRet == [kind |-> "none", via |-> "none", exc |-> "none", reply |-> <<>>,
          files |-> <<>>, query |-> <<>>, stored |-> <<>>]

\* payload: "error" for {"error": ...}, "result" for {"command", "stdout", ...}
NoTermOp == [op |-> "none", command |-> <<>>, payload |-> "none", started |-> FALSE]

\* The state once MemoryTool(memory_file) is constructed over file f
TOOLS_DIR == <<"/", "A">>     \* os.path.dirname(os.path.abspath(__file__))

\* os.path.isabs
IsAbs(p) == p # <<>> /\ p[1] = "/"

\* os.path.join(tools_dir, p) for a relative p
JoinToolsDir(p) == TOOLS_DIR \o <<"/">> \o p

RECURSIVE NormPath(_)
\* os.path.abspath of an absolute path: "." segments are dropped
NormPath(p) ==
    IF Len(p) >= 3 /\ SubSeq(p, 1, 3) = <<"/", ".", "/">> THEN NormPath(SubSeq(p, 3, Len(p)))
    ELSE IF p = <<>> THEN <<>>
    ELSE <<p[1]>> \o NormPath(Tail(p))

\* if not os.path.isabs(filepath): filepath = os.path.join(tools_dir, filepath)
Resolve(p) == IF IsAbs(p) THEN p ELSE JoinToolsDir(p)

RelPath == <<"a", ".", "t">>
DotPath == <<".", "/", "a", ".", "t">>
AbsPath == <<"/", "T", "/", "b">>
PathArgs == {RelPath, AbsPath}

\* The directories the program may be started in: the directory of tools.py
\* or another one
OTHER_DIR == <<"/", "W">>
Dirs == {TOOLS_DIR, OTHER_DIR}

\* A relative path as open() takes it: against the working directory
CwdResolve(dir, p) == IF IsAbs(p) THEN p ELSE dir \o <<"/">> \o p

\* The absolute paths the file adapters can reach
FsPaths == {NormPath(CwdResolve(d, p)) : d \in Dirs, p \in PathArgs \cup {DotPath}}

NoFile == [exists |-> FALSE, kind |-> "none", content |-> <<>>]
TextFile(content) == [exists |-> TRUE, kind |-> "text", content |-> content]
PngFile == [exists |-> TRUE, kind |-> "png", content |-> <<>>]

NoToolOp == [tool |-> "none", arg |-> <<>>, text |-> <<>>, exc |-> "none", keys |-> {},
             path |-> <<>>, content |-> <<>>]

\* No front end has been started
NoSession == [front |-> "none", turns |-> <<>>]

\* No message is being answered
NoDelivery ==
    [pc |-> "idle", n |-> 0, response |-> <<>>, files |-> <<>>, remaining |-> <<>>,
     i |-> 0, deleted |-> FALSE, how |-> "none"]

\* The command-line loop before its first line
NoLine == [pc |-> "reading", line |-> <<>>, did |-> "none"]

\* The worker threads TeleBot runs message handlers on
Workers == {"w1", "w2"}

\* A worker that is not handling a message
NoHandler == [pc |-> "idle", query |-> <<>>, nTools |-> 0, made |-> <<>>, ret |-> NoRet]

\* The state after construction, the program started in one of dirs
InitOverIn(files, dirs) ==
    /\ file \in files
    /\ disk \in Disks
    /\ memory = LoadMemory(file).val
    /\ appended = <<>>
    /\ memop = NoOp
    /\ pc = "idle"
    /\ user_input = <<>>
    /\ enhanced_input = <<>>
    /\ created_files = <<>>
    /\ produced = <<>>
    /\ nTools = 0
    /\ invocations = 0
    /\ hadFiles = FALSE
    /\ ret = NoRet
    /\ nRuns = 0
    /\ termop = NoTermOp
    /\ spawned = <<>>
    /\ handler = [w \in Workers |-> NoHandler]
    /\ received = 0
    /\ fs = [p \in FsPaths |-> NoFile]
    /\ cwd \in dirs
    /\ toolop = NoToolOp
    /\ cli = NoLine
    /\ forwarded = <<>>
    /\ dlv = NoDelivery
    /\ chat = <<>>
    /\ attempts = <<>>
    /\ sess = NoSession

InitOver(files) == InitOverIn(files, {TOOLS_DIR})

----------------------------------------------------------------------------
(* The memory store on its own: a long session of appends *)

InitMemory ==
    InitOver(FilesOf({"missing", "unreadable", "badenc", "badjson"}, StoredLens,
                     OddDocuments \cup {EditedDocument}))

\* The responses of the n-th call of a long session
RepliesAt(n) ==
    IF n < MaxVaried \/ n >= MaxAdds - MaxVaried THEN Replies ELSE {ShortReply}

\* memory_tool.add_conversation(q, r)
MemAdd ==
    /\ Len(appended) < MaxAdds
    /\ \E r \in RepliesAt(Len(appended)) :
          LET a == AddConversation(memory, file, disk, Q(Len(appended)), r)
          IN  /\ memory' = a.memory
              /\ file' = a.file
              /\ appended' = IF a.exc = "none" THEN Append(appended, a.turn) ELSE appended
              /\ memop' = [NoOp EXCEPT !.op = "add", !.exc = a.exc,
                                       !.pre = Len(memory.convs.items),
                                       !.saved = a.saved]
    /\ UNCHANGED <<disk, runVars, termVars, frontVars>>

\* MemoryTool(memory_file)._load_memory() by a second, fresh instance
MemFreshLoad ==
    /\ memop' = [NoOp EXCEPT !.op = "load", !.exc = LoadMemory(file).exc,
                             !.src = file.kind, !.store = LoadMemory(file).val]
    /\ UNCHANGED <<file, disk, memory, appended, runVars, termVars, frontVars>>

\* memory_tool.get_context()
MemGetContext ==
    /\ memop' = [NoOp EXCEPT !.op = "ctx", !.exc = GetContext(memory).exc,
                             !.text = GetContext(memory).val]
    /\ UNCHANGED <<file, disk, memory, appended, runVars, termVars, frontVars>>

NextMemory == MemAdd \/ MemFreshLoad \/ MemGetContext

SpecMemory == InitMemory /\ [][NextMemory]_vars

----------------------------------------------------------------------------
(* Paths and the file-producing adapters *)

\* A result dict of an adapter: the keys it carries
ToolResult(status, path, error) ==
    [status |-> status, hasPath |-> path # <<>>, path |-> path, error |-> error]

\* FileIOTool.write_file; outcome "ok", or "fail" when makedirs, open or
\* write raises
WriteFile(filepath, outcome) ==
    IF outcome = "ok"
    THEN ToolResult("success", NormPath(Resolve(filepath)), FALSE)
    ELSE ToolResult("none", <<>>, TRUE)

\* The filename argument of generate_qr: None, or a text (possibly "")
NoFilename == [none |-> TRUE, text |-> <<>>]
Filename(t) == [none |-> FALSE, text |-> t]
FilenameArgs == {NoFilename, Filename(<<>>), Filename(DotPath), Filename(AbsPath)}

\* if filename:
Truthy(fn) == ~fn.none /\ fn.text # <<>>

\* QRCodeTool.generate_qr; outcome "fail" when encoding or img.save raises
GenerateQR(fn, outcome) ==
    IF outcome # "ok" THEN ToolResult("none", <<>>, TRUE)
    ELSE IF Truthy(fn) THEN ToolResult("success", NormPath(Resolve(fn.text)), FALSE)
    ELSE ToolResult("success", <<>>, FALSE)

\* A bug: the argument is tracked instead of the path in the result
TrackWriteArgument(cf, result, filepath) ==
    IF result.status = "success" THEN Append(cf, filepath) ELSE cf

\* _write_file_with_tracking: created_files afterwards
TrackWrite(cf, result, filepath) ==
    IF result.status = "success"
    THEN Append(cf, IF result.hasPath THEN result.path ELSE filepath)
    ELSE cf

\* A bug: every successful QR result is tracked, saved to a file or not
TrackQRAlways(cf, result) ==
    IF result.status = "success" THEN Append(cf, result.path) ELSE cf

\* _generate_qr_with_tracking: created_files afterwards
TrackQR(cf, result) ==
    IF result.status = "success" /\ result.hasPath /\ result.path # <<>>
    THEN Append(cf, result.path)
    ELSE cf

----------------------------------------------------------------------------
(* The conversation loop: TravelAgent.run, split at the planner call *)

Utterances == {<<"h", "i">>, <<"g", "o">>}

CONTEXT_HEADER == <<"C", ":", "\n">>            \* "Контекст предыдущих разговоров:\n"
QUERY_HEADER == <<"\n", "\n", "Q", ":", " ">>   \* "\n\nТекущий запрос: "
ERROR_PREFIX == <<"E", ":", " ">>               \* "Произошла ошибка: "
DEFAULT_REPLY == <<"s", "o", "r", "r", "y">>    \* "Извините, не удалось обработать запрос."

\* What agent_executor.invoke returns: a dict with or without "output"
PlannerResults ==
    {[hasOutput |-> TRUE, output |-> r] : r \in {ShortReply, LongReply}}
    \cup {[hasOutput |-> FALSE, output |-> <<>>]}

\* str(e) of the exceptions invoke raises
PlannerErrors == {<<"t", "o">>}

\* str(e) of an exception raised by the memory tool
ExcText(e) ==
    CASE e = "KeyError" -> <<"k">>           \* "'conversations'"
      [] e = "TypeError" -> <<"t">>
      [] OTHER -> <<"a">>

\* A bug: the list of the previous call is kept
KeepCreatedFiles(cf) == cf

\* self.created_files = []
ClearCreatedFiles(cf) == <<>>

\* A bug: the header is put before the query also when there is no context
EnhancedAlways(context, q) == CONTEXT_HEADER \o context \o QUERY_HEADER \o q

\* enhanced_input
Enhanced(context, q) ==
    IF context # <<>> THEN CONTEXT_HEADER \o context \o QUERY_HEADER \o q ELSE q

\* The except branch of run: the store and the file afterwards and what
\* the call returns or raises
ExceptBranch(mem, f, d, q, msg, via) ==
    LET error_msg == ERROR_PREFIX \o msg
        a == AddConversation(mem, f, d, q, error_msg)
    IN  IF a.exc = "none"
        THEN [memory |-> a.memory, file |-> a.file,
              ret |-> [kind |-> "returned", via |-> via, exc |-> "none",
                       reply |-> error_msg, files |-> <<>>, query |-> q,
                       stored |-> <<a.turn>>]]
        ELSE [memory |-> a.memory, file |-> a.file,
              ret |-> [kind |-> "raised", via |-> via, exc |-> a.exc,
                       reply |-> <<>>, files |-> <<>>, query |-> q,
                       stored |-> <<>>]]

\* The call is over: its effects on the store and what it gave back
Finish(b) ==
    /\ memory' = b.memory
    /\ file' = b.file
    /\ ret' = b.ret
    /\ appended' = appended \o b.ret.stored
    /\ pc' = "idle"

InitRun == InitOver(FilesOf({"missing", "badjson"}, {0, CONTEXT_TURNS + 1}, FewOddDocuments))

\* run(q) up to agent_executor.invoke, or to its end when get_context raises
RunStart ==
    /\ pc = "idle"
    /\ nRuns < MaxRuns
    /\ \E q \in Utterances :
          LET context == GetContext(memory)
          IN  /\ user_input' = q
              /\ created_files' = ClearCreatedFiles(created_files)
              /\ produced' = <<>>
              /\ nTools' = 0
              /\ nRuns' = nRuns + 1
              /\ hadFiles' = (created_files # <<>>)
              /\ IF context.exc = "none"
                 THEN /\ enhanced_input' = Enhanced(context.val, q)
                      /\ invocations' = 1
                      /\ pc' = "planning"
                      /\ ret' = NoRet
                      /\ UNCHANGED <<memory, file, appended>>
                 ELSE /\ enhanced_input' = <<>>
                      /\ invocations' = 0
                      /\ Finish(ExceptBranch(memory, file, disk, q,
                                             ExcText(context.exc), "ctx_exc"))
    /\ UNCHANGED <<disk, memop, termVars, frontVars>>

\* The planner calls write_file
ToolWriteFile ==
    /\ pc = "planning"
    /\ nTools < MaxToolCalls
    /\ \E filepath \in PathArgs, outcome \in {"ok", "fail"} :
          /\ created_files' = TrackWrite(created_files, WriteFile(filepath, outcome), filepath)
          /\ produced' = IF outcome = "ok"
                         THEN Append(produced, NormPath(Resolve(filepath)))
                         ELSE produced
    /\ nTools' = nTools + 1
    /\ UNCHANGED <<memVars, pc, user_input, enhanced_input, invocations, hadFiles, ret,
                   nRuns, termVars, frontVars>>

\* The planner calls generate_qr_code
ToolGenerateQR ==
    /\ pc = "planning"
    /\ nTools < MaxToolCalls
    /\ \E fn \in FilenameArgs, outcome \in {"ok", "fail"} :
          /\ created_files' = TrackQR(created_files, GenerateQR(fn, outcome))
          /\ produced' = IF outcome = "ok" /\ Truthy(fn)
                         THEN Append(produced, NormPath(Resolve(fn.text)))
                         ELSE produced
    /\ nTools' = nTools + 1
    /\ UNCHANGED <<memVars, pc, user_input, enhanced_input, invocations, hadFiles, ret,
                   nRuns, termVars, frontVars>>

\* The planner calls a tool that is not wrapped for tracking
ToolOther ==
    /\ pc = "planning"
    /\ nTools < MaxToolCalls
    /\ nTools' = nTools + 1
    /\ UNCHANGED <<memVars, pc, user_input, enhanced_input, created_files, produced,
                   invocations, hadFiles, ret, nRuns, termVars, frontVars>>

\* invoke returns: the rest of the try of run
PlannerReturn ==
    /\ pc = "planning"
    /\ \E res \in PlannerResults :
          LET response == IF res.hasOutput THEN res.output ELSE DEFAULT_REPLY
              a == AddConversation(memory, file, disk, user_input, response)
          IN  IF a.exc = "none"
              THEN Finish([memory |-> a.memory, file |-> a.file,
                           ret |-> [kind |-> "returned", via |-> "ok", exc |-> "none",
                                    reply |-> response, files |-> created_files,
                                    query |-> user_input, stored |-> <<a.turn>>]])
              ELSE Finish(ExceptBranch(a.memory, a.file, disk, user_input,
                                       ExcText(a.exc), "add_exc"))
    /\ UNCHANGED <<disk, memop, user_input, enhanced_input, created_files, produced,
                   nTools, invocations, hadFiles, nRuns, termVars, frontVars>>

\* invoke raises: the except branch of run
PlannerRaise ==
    /\ pc = "planning"
    /\ \E msg \in PlannerErrors :
          Finish(ExceptBranch(memory, file, disk, user_input, msg, "planner_exc"))
    /\ UNCHANGED <<disk, memop, user_input, enhanced_input, created_files, produced,
                   nTools, invocations, hadFiles, nRuns, termVars, frontVars>>

\* run_agent constructs a new TravelAgent: the memory file is loaded again
NewAgent ==
    /\ pc = "idle"
    /\ memory' = LoadMemory(file).val
    /\ created_files' = <<>>
    /\ appended' = <<>>
    /\ UNCHANGED <<file, disk, memop, pc, user_input, enhanced_input, produced, nTools,
                   invocations, hadFiles, ret, nRuns, termVars, frontVars>>

Init == InitRun

Next ==
    \/ RunStart
    \/ ToolWriteFile
    \/ ToolGenerateQR
    \/ ToolOther
    \/ PlannerReturn
    \/ PlannerRaise
    \/ NewAgent

Spec == Init /\ [][Next]_vars

----------------------------------------------------------------------------
(* The restricted command adapter: TerminalTool.execute *)

LS == <<"l", "s">>
CD == <<"c", "d">>
RM == <<"r", "m">>

ALLOWED_COMMANDS ==
    { LS, <<"d", "i", "r">>, <<"p", "w", "d">>, CD, <<"e", "c", "h", "o">>,
      <<"c", "a", "t">>, <<"t", "y", "p", "e">>, <<"d", "a", "t", "e">>,
      <<"t", "i", "m", "e">> }

\* The commands the description of the execute_terminal tool names as the
\* only ones allowed
DESCRIBED_COMMANDS ==
    { LS, <<"d", "i", "r">>, <<"p", "w", "d">>, <<"e", "c", "h", "o">>,
      <<"c", "a", "t">>, <<"t", "y", "p", "e">>, <<"d", "a", "t", "e">>,
      <<"t", "i", "m", "e">> }

\* Characters str.strip and str.split take as whitespace
IsSpace(c) == c \in {" ", "\t", "\n"}

UpperCase == <<"A", "B", "C", "D", "E", "F", "G", "H", "I", "J", "K", "L", "M",
               "N", "O", "P", "Q", "R", "S", "T", "U", "V", "W", "X", "Y", "Z">>
LowerCase == <<"a", "b", "c", "d", "e", "f", "g", "h", "i", "j", "k", "l", "m",
               "n", "o", "p", "q", "r", "s", "t", "u", "v", "w", "x", "y", "z">>

\* str.lower, one character
LowerChar(c) ==
    IF \E i \in 1..Len(UpperCase) : UpperCase[i] = c
    THEN LowerCase[CHOOSE i \in 1..Len(UpperCase) : UpperCase[i] = c]
    ELSE c

\* str.lower
LowerText(s) == [i \in 1..Len(s) |-> LowerChar(s[i])]

RECURSIVE SkipSpaces(_)
SkipSpaces(s) == IF s # <<>> /\ IsSpace(s[1]) THEN SkipSpaces(Tail(s)) ELSE s

RECURSIVE WordLen(_)
\* The length of the longest prefix without whitespace
WordLen(s) == IF s = <<>> \/ IsSpace(s[1]) THEN 0 ELSE 1 + WordLen(Tail(s))

RECURSIVE Split(_)
\* command.strip().split()
Split(s) ==
    LET t == SkipSpaces(s)
    IN  IF t = <<>> THEN <<>>
        ELSE <<SubSeq(t, 1, WordLen(t))>> \o Split(SubSeq(t, WordLen(t) + 1, Len(t)))

\* A bug: the command passes when any of its tokens is an allowed command
NotAllowedAnyToken(cmd_parts) ==
    ~\E i \in 1..Len(cmd_parts) : LowerText(cmd_parts[i]) \in ALLOWED_COMMANDS

\* base_cmd = cmd_parts[0].lower(); base_cmd not in ALLOWED_COMMANDS
NotAllowed(cmd_parts) == LowerText(cmd_parts[1]) \notin ALLOWED_COMMANDS

\* TerminalTool.execute: the payload returned and whether subprocess.run
\* was called; outcome is what subprocess.run does ("done", "timeout",
\* "oserror")
Execute(command, outcome) ==
    LET cmd_parts == Split(command)
    IN  IF cmd_parts = <<>> THEN [payload |-> "error", started |-> FALSE]
        ELSE IF NotAllowed(cmd_parts) THEN [payload |-> "error", started |-> FALSE]
        ELSE [payload |-> IF outcome = "done" THEN "result" ELSE "error",
              started |-> TRUE]

SP == <<" ">>

\* Command texts the planner may pass
Commands ==
    { <<>>, SP \o <<"\t">>,
      LS, SP \o LS \o SP \o <<"-", "a">>, <<"L", "S">>, <<"L", "s">> \o SP \o <<"x">>,
      CD \o SP \o <<"/">>, <<"D", "i", "r">>,
      RM \o SP \o <<"x">>, <<"\t">> \o RM, <<"s", "u">> \o SP \o LS,
      LS \o <<";">> \o RM, LS \o SP \o <<";">> \o SP \o RM,
      <<"e", "c", "h", "o">> \o <<"\n">> \o <<"x">>, <<"l", "s", "x">> }

InitTerminal == InitOver({File("missing", NoText, 0)})

\* terminal_tool.execute(command)
TerminalExecute ==
    /\ Len(spawned) < MaxSpawned
    /\ \E command \in Commands, outcome \in {"done", "timeout", "oserror"} :
          LET r == Execute(command, outcome)
          IN  /\ termop' = [op |-> "execute", command |-> command,
                            payload |-> r.payload, started |-> r.started]
              /\ spawned' = IF r.started THEN Append(spawned, command) ELSE spawned
    /\ UNCHANGED <<memVars, runVars, frontVars>>

NextTerminal == TerminalExecute

SpecTerminal == InitTerminal /\ [][NextTerminal]_vars

----------------------------------------------------------------------------
(* The chat bot: handle_message on the worker threads of TeleBot, all of
   them calling run on the one TravelAgent built at start-up *)

MaxMessages == 2
MaxBotTools == 1

\* A worker is inside travel_agent.run
InRun(h) == h.pc = "planning"

InitBot == InitOver(FilesOf({"missing"}, {0}, {}))

\* The call of run on worker w is over
BotFinish(w, b) ==
    /\ memory' = b.memory
    /\ file' = b.file
    /\ appended' = appended \o b.ret.stored
    /\ handler' = [handler EXCEPT ![w].pc = "delivering", ![w].ret = b.ret]

\* A worker takes a message: handle_message up to agent_executor.invoke
\* inside travel_agent.run
BotHandleMessage(w) ==
    /\ handler[w].pc = "idle"
    /\ received < MaxMessages
    /\ received' = received + 1
    /\ created_files' = ClearCreatedFiles(created_files)
    /\ \E q \in {Q(received)} :
          LET context == GetContext(memory)
          IN  IF context.exc = "none"
              THEN /\ handler' = [handler EXCEPT ![w] =
                          [pc |-> "planning", query |-> q, nTools |-> 0,
                           made |-> <<>>, ret |-> NoRet]]
                   /\ UNCHANGED <<memory, file, appended>>
              ELSE LET b == ExceptBranch(memory, file, disk, q,
                                         ExcText(context.exc), "ctx_exc")
                   IN  /\ memory' = b.memory
                       /\ file' = b.file
                       /\ appended' = appended \o b.ret.stored
                       /\ handler' = [handler EXCEPT ![w] =
                              [pc |-> "delivering", query |-> q, nTools |-> 0,
                               made |-> <<>>, ret |-> b.ret]]
    /\ UNCHANGED <<disk, memop, pc, user_input, enhanced_input, produced, nTools,
                   invocations, hadFiles, ret, nRuns, termVars, toolVars, cliVars, dlvVars, sessVars>>

\* The planner of the run on worker w calls write_file
BotToolWriteFile(w) ==
    /\ InRun(handler[w])
    /\ handler[w].nTools < MaxBotTools
    /\ \E filepath \in PathArgs, outcome \in {"ok", "fail"} :
          /\ created_files' = TrackWrite(created_files, WriteFile(filepath, outcome), filepath)
          /\ handler' = [handler EXCEPT
                ![w].nTools = @ + 1,
                ![w].made = IF outcome = "ok"
                            THEN Append(@, NormPath(Resolve(filepath))) ELSE @]
    /\ UNCHANGED <<memVars, pc, user_input, enhanced_input, produced, nTools,
                   invocations, hadFiles, ret, nRuns, termVars, received, toolVars, cliVars, dlvVars, sessVars>>

\* invoke returns on worker w: the rest of the try of run
BotPlannerReturn(w) ==
    /\ InRun(handler[w])
    /\ \E res \in PlannerResults :
          LET response == IF res.hasOutput THEN res.output ELSE DEFAULT_REPLY
              q == handler[w].query
              a == AddConversation(memory, file, disk, q, response)
          IN  IF a.exc = "none"
              THEN BotFinish(w, [memory |-> a.memory, file |-> a.file,
                                 ret |-> [kind |-> "returned", via |-> "ok", exc |-> "none",
                                          reply |-> response, files |-> created_files,
                                          query |-> q, stored |-> <<a.turn>>]])
              ELSE BotFinish(w, ExceptBranch(a.memory, a.file, disk, q,
                                             ExcText(a.exc), "add_exc"))
    /\ UNCHANGED <<disk, memop, pc, user_input, enhanced_input, created_files, produced,
                   nTools, invocations, hadFiles, ret, nRuns, termVars, received, toolVars, cliVars, dlvVars, sessVars>>

\* invoke raises on worker w: the except branch of run
BotPlannerRaise(w) ==
    /\ InRun(handler[w])
    /\ \E msg \in PlannerErrors :
          BotFinish(w, ExceptBranch(memory, file, disk, handler[w].query, msg,
                                    "planner_exc"))
    /\ UNCHANGED <<disk, memop, pc, user_input, enhanced_input, created_files, produced,
                   nTools, invocations, hadFiles, ret, nRuns, termVars, received, toolVars, cliVars, dlvVars, sessVars>>

\* handle_message after run: the reply and the artifacts go to the chat and
\* the worker is free again
BotDeliver(w) ==
    /\ handler[w].pc = "delivering"
    /\ handler' = [handler EXCEPT ![w].pc = "idle"]
    /\ UNCHANGED <<memVars, runVars, termVars, received, toolVars, cliVars, dlvVars, sessVars>>

NextBot ==
    \E w \in Workers :
        \/ BotHandleMessage(w)
        \/ BotToolWriteFile(w)
        \/ BotPlannerReturn(w)
        \/ BotPlannerRaise(w)
        \/ BotDeliver(w)

SpecBot == InitBot /\ [][NextBot]_vars

----------------------------------------------------------------------------
(* The tool adapters on their own: each call with what the network, the
   file system or the subprocess answers *)

\* A dict an adapter returns: its keys, and the path and content it carries
Payload(keys, path, content) ==
    [exc |-> "none", keys |-> keys, path |-> path, content |-> content]

\* An exception raised in the body of an adapter
Raised(e) == [exc |-> e, keys |-> {}, path |-> <<>>, content |-> <<>>]

\* {"error": message}
ErrorPayload == Payload({"error"}, <<>>, <<>>)

\* A bug: the exception leaves the adapter
LetExceptionThrough(r) == r

\* try: ... except Exception as e: return {"error": ...}
CatchException(r) == IF r.exc # "none" THEN ErrorPayload ELSE r

\* A bug: the not-found payload carries the city besides the message
GetWeatherErrorWithCity(answer) ==
    CatchException(
        CASE answer = "geocode_raises" -> Raised("GeocoderServiceError")
          [] answer = "no_location" -> Payload({"error", "city"}, <<>>, <<>>)
          [] answer = "http_error" -> Raised("HTTPError")
          [] answer = "not_json" -> Raised("JSONDecodeError")
          [] answer = "no_current_weather" -> ErrorPayload
          [] OTHER -> Payload({"city", "temperature", "windspeed", "winddirection",
                               "weathercode", "time"}, <<>>, <<>>))

\* WeatherTool.get_weather, by what the geocoder and the weather service answer
GetWeather(answer) ==
    CatchException(
        CASE answer = "geocode_raises" -> Raised("GeocoderServiceError")
          [] answer = "no_location" -> ErrorPayload
          [] answer = "http_error" -> Raised("HTTPError")
          [] answer = "not_json" -> Raised("JSONDecodeError")
          [] answer = "no_current_weather" -> ErrorPayload
          [] OTHER -> Payload({"city", "temperature", "windspeed", "winddirection",
                               "weathercode", "time"}, <<>>, <<>>))

WeatherAnswers ==
    {"geocode_raises", "no_location", "http_error", "not_json", "no_current_weather", "ok"}

\* CurrencyTool.get_exchange_rate, by what the rate service answers
GetExchangeRate(answer) ==
    CatchException(
        CASE answer = "http_error" -> Raised("HTTPError")
          [] answer = "not_json" -> Raised("JSONDecodeError")
          [] answer = "no_rates" -> ErrorPayload
          [] answer = "no_currency" -> ErrorPayload
          [] answer = "rate_not_a_number" -> Raised("TypeError")
          [] OTHER -> Payload({"currency", "rate_to_rub", "rub_to_currency", "base"},
                              <<>>, <<>>))

CurrencyAnswers ==
    {"http_error", "not_json", "no_rates", "no_currency", "rate_not_a_number", "ok"}

\* WebSearchTool.search, by what the search service answers
Search(answer) ==
    CatchException(
        CASE answer = "import_error" -> Raised("ImportError")
          [] answer = "search_raises" -> Raised("DuckDuckGoSearchException")
          [] answer = "row_not_a_dict" -> Raised("AttributeError")
          [] OTHER -> Payload({"query", "results", "count"}, <<>>, <<>>))

SearchAnswers == {"import_error", "search_raises", "row_not_a_dict", "no_results", "ok"}

\* FileIOTool.read_file: open(filepath) takes a relative path against the
\* working directory
ReadFile(fsys, dir, filepath) ==
    LET p == NormPath(CwdResolve(dir, filepath))
    IN  CatchException(
            IF ~fsys[p].exists THEN Raised("FileNotFoundError")
            ELSE IF fsys[p].kind # "text" THEN Raised("UnicodeDecodeError")
            ELSE Payload({"filepath", "content"}, filepath, fsys[p].content))

\* The dict of an adapter that reports a saved path
PayloadOf(result, keys) ==
    IF result.error THEN ErrorPayload ELSE Payload(keys, result.path, <<>>)

\* FileIOTool.write_file on the file system: the payload and the files
\* afterwards; outcome "fail" when makedirs or open raises, "cut" when
\* write raises after open has emptied the file
FileWrite(fsys, filepath, content, outcome) ==
    LET p == NormPath(Resolve(filepath))
    IN  [payload |-> PayloadOf(WriteFile(filepath, IF outcome = "ok" THEN "ok" ELSE "fail"),
                               {"filepath", "status"}),
         fs |-> CASE outcome = "ok" -> [fsys EXCEPT ![p] = TextFile(content)]
                  [] outcome = "cut" -> [fsys EXCEPT ![p] = TextFile(<<>>)]
                  [] OTHER -> fsys]

\* QRCodeTool.generate_qr on the file system
FileQR(fsys, fn, outcome) ==
    [payload |-> PayloadOf(GenerateQR(fn, outcome),
                           IF Truthy(fn) THEN {"status", "filename", "data_length"}
                           ELSE {"status", "data_length", "image_base64"}),
     fs |-> IF outcome = "ok" /\ Truthy(fn)
            THEN [fsys EXCEPT ![NormPath(Resolve(fn.text))] = PngFile]
            ELSE fsys]

\* The dict TerminalTool.execute returns
ExecutePayload(command, outcome) ==
    IF Execute(command, outcome).payload = "error" THEN ErrorPayload
    ELSE Payload({"command", "stdout", "stderr", "returncode"}, <<>>, <<>>)

\* Contents the planner writes
Contents == {<<>>, <<"c", "1">>, <<"c", "2">>}

FilePathArgs == PathArgs \cup {DotPath}

ToolOp(tool, arg, text, r) ==
    [tool |-> tool, arg |-> arg, text |-> text, exc |-> r.exc, keys |-> r.keys,
     path |-> r.path, content |-> r.content]

InitAdapters == InitOverIn({File("missing", NoText, 0)}, Dirs)

CallGetWeather ==
    /\ \E answer \in WeatherAnswers :
          toolop' = ToolOp("get_weather", <<answer>>, <<>>, GetWeather(answer))
    /\ UNCHANGED <<memVars, runVars, termVars, botVars, cliVars, dlvVars, sessVars, fs, cwd>>

CallGetExchangeRate ==
    /\ \E answer \in CurrencyAnswers :
          toolop' = ToolOp("get_exchange_rate", <<answer>>, <<>>, GetExchangeRate(answer))
    /\ UNCHANGED <<memVars, runVars, termVars, botVars, cliVars, dlvVars, sessVars, fs, cwd>>

CallSearch ==
    /\ \E answer \in SearchAnswers :
          toolop' = ToolOp("search", <<answer>>, <<>>, Search(answer))
    /\ UNCHANGED <<memVars, runVars, termVars, botVars, cliVars, dlvVars, sessVars, fs, cwd>>

CallReadFile ==
    /\ \E filepath \in FilePathArgs :
          toolop' = ToolOp("read_file", filepath, <<>>, ReadFile(fs, cwd, filepath))
    /\ UNCHANGED <<memVars, runVars, termVars, botVars, cliVars, dlvVars, sessVars, fs, cwd>>

CallWriteFile ==
    /\ \E filepath \in FilePathArgs, content \in Contents, outcome \in {"ok", "fail", "cut"} :
          LET w == FileWrite(fs, filepath, content, outcome)
          IN  /\ toolop' = ToolOp("write_file", filepath, content, w.payload)
              /\ fs' = w.fs
    /\ UNCHANGED <<memVars, runVars, termVars, botVars, cliVars, dlvVars, sessVars, cwd>>

CallGenerateQR ==
    /\ \E fn \in FilenameArgs, outcome \in {"ok", "fail"} :
          LET g == FileQR(fs, fn, outcome)
          IN  /\ toolop' = ToolOp("generate_qr", fn.text, <<>>, g.payload)
              /\ fs' = g.fs
    /\ UNCHANGED <<memVars, runVars, termVars, botVars, cliVars, dlvVars, sessVars, cwd>>

CallExecute ==
    /\ \E command \in Commands, outcome \in {"done", "timeout", "oserror"} :
          toolop' = ToolOp("execute", command, <<>>, ExecutePayload(command, outcome))
    /\ UNCHANGED <<memVars, runVars, termVars, botVars, cliVars, dlvVars, sessVars, fs, cwd>>

NextAdapters ==
    \/ CallGetWeather
    \/ CallGetExchangeRate
    \/ CallSearch
    \/ CallReadFile
    \/ CallWriteFile
    \/ CallGenerateQR
    \/ CallExecute

SpecAdapters == InitAdapters /\ [][NextAdapters]_vars

----------------------------------------------------------------------------
(* The command-line front end: the loop of main in run.py. A Cyrillic
   letter is written as one element "~x", x its Latin transliteration. *)

MaxLines == 3

EXIT == <<"e", "x", "i", "t">>
QUIT == <<"q", "u", "i", "t">>
VYHOD == <<"~v", "~y", "~h", "~o", "~d">>               \* "выход"
HELP == <<"h", "e", "l", "p">>
POMOSCH == <<"~p", "~o", "~m", "~o", "~sch", "~'">>     \* "помощь"

EXIT_KEYWORDS == {EXIT, QUIT, VYHOD}
HELP_KEYWORDS == {HELP, POMOSCH}

RECURSIVE StripRight(_)
StripRight(s) ==
    IF s # <<>> /\ IsSpace(s[Len(s)]) THEN StripRight(SubSeq(s, 1, Len(s) - 1)) ELSE s

\* str.strip
Strip(s) == StripRight(SkipSpaces(s))

\* A bug: the keyword is compared as typed
IsExitAsTyped(t) == t \in EXIT_KEYWORDS

\* user_input.lower() in ['exit', 'quit', 'выход']
IsExit(t) == LowerText(t) \in EXIT_KEYWORDS

\* user_input.lower() in ['help', 'помощь']
IsHelp(t) == LowerText(t) \in HELP_KEYWORDS

\* Lines the user may type
Lines ==
    { <<>>, SP \o <<"\t">>,
      EXIT, QUIT, VYHOD, <<"E", "x", "i", "t">>, SP \o QUIT \o SP,
      HELP, POMOSCH, <<"H", "E", "L", "P">>, HELP \o <<"\t">>,
      <<"h", "i">>, SP \o <<"h", "i">> \o SP, EXIT \o SP \o <<"n", "o", "w">>,
      HELP \o <<"e", "r">> }

InitCLI == InitOver({File("missing", NoText, 0)})

\* One turn of the loop: a line is read and handled, up to the call of
\* run_agent when it is a request
CliReadLine ==
    /\ cli.pc = "reading"
    /\ \E line \in Lines :
          LET user_input_ == Strip(line)
          IN  IF user_input_ = <<>>
              THEN /\ cli' = [pc |-> "reading", line |-> line, did |-> "skipped"]
                   /\ UNCHANGED forwarded
              ELSE IF IsExit(user_input_)
              THEN /\ cli' = [pc |-> "exited", line |-> line, did |-> "exit"]
                   /\ UNCHANGED forwarded
              ELSE IF IsHelp(user_input_)
              THEN /\ cli' = [pc |-> "reading", line |-> line, did |-> "help"]
                   /\ UNCHANGED forwarded
              ELSE /\ Len(forwarded) < MaxLines
                   /\ cli' = [pc |-> "running", line |-> line, did |-> "forwarded"]
                   /\ forwarded' = Append(forwarded, user_input_)
    /\ UNCHANGED <<memVars, runVars, termVars, botVars, toolVars, dlvVars, sessVars>>

\* run_agent returns its reply or its error text and the loop prints it
CliPrintResponse ==
    /\ cli.pc = "running"
    /\ cli' = [cli EXCEPT !.pc = "reading"]
    /\ UNCHANGED <<memVars, runVars, termVars, botVars, toolVars, dlvVars, sessVars, forwarded>>

\* input() raises KeyboardInterrupt: the loop ends
CliInterrupt ==
    /\ cli.pc = "reading"
    /\ cli' = [pc |-> "exited", line |-> <<>>, did |-> "interrupt"]
    /\ UNCHANGED <<memVars, runVars, termVars, botVars, toolVars, dlvVars, sessVars, forwarded>>

\* input() raises another exception: it is printed and the loop goes on
CliInputError ==
    /\ cli.pc = "reading"
    /\ cli' = [pc |-> "reading", line |-> <<>>, did |-> "error"]
    /\ UNCHANGED <<memVars, runVars, termVars, botVars, toolVars, dlvVars, sessVars, forwarded>>

NextCLI ==
    \/ CliReadLine
    \/ CliPrintResponse
    \/ CliInterrupt
    \/ CliInputError

SpecCLI == InitCLI /\ [][NextCLI]_vars

----------------------------------------------------------------------------
(* The chat bot answering one message: handle_message from the reply of
   travel_agent.run on, one Telegram call per step *)

MAX_LENGTH == 4096
MaxDeliveries == 1

\* s[n:]
Drop(s, n) == SubSeq(s, n + 1, Len(s))

\* A reply of n characters, no two neighbours alike
Response(n) == [i \in 1..n |-> DigitChar(i % 10)]

Responses ==
    {Response(n) : n \in {3, MAX_LENGTH, MAX_LENGTH + 1, 2 * MAX_LENGTH + 1}}

\* The artifact lists run returns
ArtifactLists ==
    { <<>>, <<AbsPath>>, <<NormPath(Resolve(RelPath)), AbsPath>> }

THINKING == [kind |-> "thinking", text |-> <<>>]
Message(kind, text) == [kind |-> kind, text |-> text]

\* What a call of the Telegram API does: it goes through, raises
\* ApiTelegramException, or raises another exception
ApiOutcomes == {"ok", "api_error", "other_error"}

InitDelivery == InitOver({File("missing", NoText, 0)})

\* remaining = response: the fallback starts over with the whole reply
FallbackStart(response, remaining) == response

\* reply_to(message, thinking text), then travel_agent.run returns
HmStart ==
    /\ dlv.pc \in {"idle", "done"}
    /\ dlv.n < MaxDeliveries
    /\ \E outcome \in {"ok", "error"}, response \in Responses, files \in ArtifactLists :
          IF outcome = "ok"
          THEN /\ dlv' = [pc |-> "edit", n |-> dlv.n + 1, response |-> response,
                          files |-> files, remaining |-> <<>>, i |-> 0,
                          deleted |-> FALSE, how |-> "none"]
               /\ chat' = <<THINKING>>
               /\ attempts' = <<>>
          ELSE /\ dlv' = [NoDelivery EXCEPT !.pc = "done", !.n = dlv.n + 1, !.how = "raised"]
               /\ chat' = <<>>
               /\ attempts' = <<>>
    /\ UNCHANGED <<memVars, runVars, termVars, botVars, toolVars, cliVars, sessVars>>

\* edit_message_text of the thinking message with response[:max_length]
HmEdit ==
    /\ dlv.pc = "edit"
    /\ \E outcome \in ApiOutcomes :
          CASE outcome = "ok" ->
                 /\ chat' = [chat EXCEPT ![1] = Message("reply", Take(dlv.response, MAX_LENGTH))]
                 /\ dlv' = IF Len(dlv.response) <= MAX_LENGTH
                           THEN [dlv EXCEPT !.pc = "files", !.how = "markdown"]
                           ELSE [dlv EXCEPT !.pc = "send",
                                            !.remaining = Drop(dlv.response, MAX_LENGTH)]
            [] outcome = "api_error" ->
                 /\ dlv' = [dlv EXCEPT !.pc = "fallback_delete"]
                 /\ UNCHANGED chat
            [] OTHER ->
                 /\ dlv' = [dlv EXCEPT !.pc = "failed"]
                 /\ UNCHANGED chat
    /\ UNCHANGED <<memVars, runVars, termVars, botVars, toolVars, cliVars, sessVars, attempts>>

\* One turn of while remaining: send_message(chunk, parse_mode='Markdown')
HmSendChunk ==
    /\ dlv.pc = "send"
    /\ \E outcome \in ApiOutcomes :
          LET chunk == Take(dlv.remaining, MAX_LENGTH)
              rest == Drop(dlv.remaining, MAX_LENGTH)
          IN  CASE outcome = "ok" ->
                     /\ chat' = Append(chat, Message("reply", chunk))
                     /\ dlv' = IF rest = <<>>
                               THEN [dlv EXCEPT !.pc = "files", !.remaining = rest,
                                                !.how = "markdown"]
                               ELSE [dlv EXCEPT !.remaining = rest]
                [] outcome = "api_error" ->
                     /\ dlv' = [dlv EXCEPT !.pc = "fallback_delete"]
                     /\ UNCHANGED chat
                [] OTHER ->
                     /\ dlv' = [dlv EXCEPT !.pc = "failed"]
                     /\ UNCHANGED chat
    /\ UNCHANGED <<memVars, runVars, termVars, botVars, toolVars, cliVars, sessVars, attempts>>

\* except ApiTelegramException: delete_message of the thinking message,
\* whatever it holds by now; a failure is passed over
HmFallbackDelete ==
    /\ dlv.pc = "fallback_delete"
    /\ \E outcome \in {"ok", "error"} :
          /\ chat' = IF outcome = "ok" THEN Tail(chat) ELSE chat
          /\ dlv' = [dlv EXCEPT !.pc = "fallback_send",
                                !.deleted = (outcome = "ok"),
                                !.remaining = FallbackStart(dlv.response, dlv.remaining)]
    /\ UNCHANGED <<memVars, runVars, termVars, botVars, toolVars, cliVars, sessVars, attempts>>

\* The sends of the fallback, without parse_mode; an exception of any kind
\* leaves for the outer except
HmFallbackSend ==
    /\ dlv.pc = "fallback_send"
    /\ \E outcome \in {"ok", "error"} :
          LET chunk == IF Len(dlv.response) <= MAX_LENGTH THEN dlv.remaining
                       ELSE Take(dlv.remaining, MAX_LENGTH)
              rest == IF Len(dlv.response) <= MAX_LENGTH THEN <<>>
                      ELSE Drop(dlv.remaining, MAX_LENGTH)
          IN  IF outcome = "ok"
              THEN /\ chat' = Append(chat, Message("reply", chunk))
                   /\ dlv' = IF rest = <<>>
                             THEN [dlv EXCEPT !.pc = "files", !.remaining = rest,
                                              !.how = "plain"]
                             ELSE [dlv EXCEPT !.remaining = rest]
              ELSE /\ dlv' = [dlv EXCEPT !.pc = "failed"]
                   /\ UNCHANGED chat
    /\ UNCHANGED <<memVars, runVars, termVars, botVars, toolVars, cliVars, sessVars, attempts>>

\* One turn of for filepath in created_files: the file is sent; or it is
\* not there and only the log says so; or sending raises and the notice is
\* sent; or the notice raises too and is passed over
HmSendFile ==
    /\ dlv.pc = "files"
    /\ dlv.i < Len(dlv.files)
    /\ \E did \in {"sent", "missing", "noticed", "unnoticed"} :
          LET filepath == dlv.files[dlv.i + 1]
          IN  /\ chat' = CASE did = "sent" -> Append(chat, Message("file", filepath))
                           [] did = "noticed" -> Append(chat, Message("notice", filepath))
                           [] OTHER -> chat
              /\ attempts' = Append(attempts, [path |-> filepath, did |-> did])
              /\ dlv' = [dlv EXCEPT !.i = dlv.i + 1]
    /\ UNCHANGED <<memVars, runVars, termVars, botVars, toolVars, cliVars, sessVars>>

\* The loop over the artifacts is over and handle_message returns
HmReturn ==
    /\ dlv.pc = "files"
    /\ dlv.i >= Len(dlv.files)
    /\ dlv' = [dlv EXCEPT !.pc = "done"]
    /\ UNCHANGED <<memVars, runVars, termVars, botVars, toolVars, cliVars, sessVars, chat, attempts>>

\* The outer except: the error text is put into the thinking message, or
\* sent as a reply when that fails, or lost when the reply raises too
HmFailed ==
    /\ dlv.pc = "failed"
    /\ \E outcome \in {"edited", "replied", "raised"} :
          /\ outcome = "edited" => ~dlv.deleted
          /\ chat' = CASE outcome = "edited" -> [chat EXCEPT ![1] = Message("error", <<>>)]
                       [] outcome = "replied" -> Append(chat, Message("error", <<>>))
                       [] OTHER -> chat
          /\ dlv' = [dlv EXCEPT !.pc = "done", !.how = "failed"]
    /\ UNCHANGED <<memVars, runVars, termVars, botVars, toolVars, cliVars, sessVars, attempts>>

NextDelivery ==
    \/ HmStart
    \/ HmEdit
    \/ HmSendChunk
    \/ HmFallbackDelete
    \/ HmFallbackSend
    \/ HmSendFile
    \/ HmReturn
    \/ HmFailed

SpecDelivery == InitDelivery /\ [][NextDelivery]_vars

----------------------------------------------------------------------------
(* A session of one front end, turn after turn, on a disk that may stop and
   resume accepting writes: the command line builds a TravelAgent for every
   utterance (run_agent), the bot keeps the one built at start-up *)

MaxTurns == 3

\* What the planner does in a turn: it returns a result or raises
Plans ==
    {[raises |-> FALSE, msg |-> <<>>, res |-> res] :
        res \in {r \in PlannerResults : r.output # LongReply}}
    \cup {[raises |-> TRUE, msg |-> msg, res |-> [hasOutput |-> FALSE, output |-> <<>>]] :
             msg \in PlannerErrors}

\* TravelAgent.run from its first statement to its return or raise: the
\* context it built, the store and the file afterwards, what it gave back
RunWhole(mem, f, d, q, plan) ==
    LET context == GetContext(mem)
        response == IF plan.res.hasOutput THEN plan.res.output ELSE DEFAULT_REPLY
        a == AddConversation(mem, f, d, q, response)
        b == IF context.exc # "none"
             THEN ExceptBranch(mem, f, d, q, ExcText(context.exc), "ctx_exc")
             ELSE IF plan.raises
             THEN ExceptBranch(mem, f, d, q, plan.msg, "planner_exc")
             ELSE IF a.exc = "none"
             THEN [memory |-> a.memory, file |-> a.file,
                   ret |-> [kind |-> "returned", via |-> "ok", exc |-> "none",
                            reply |-> response, files |-> <<>>, query |-> q,
                            stored |-> <<a.turn>>]]
             ELSE ExceptBranch(a.memory, a.file, d, q, ExcText(a.exc), "add_exc")
    IN  [context |-> context, memory |-> b.memory, file |-> b.file, ret |-> b.ret]

\* The document holds the turn as its last entry
HoldsLast(mem, turn) ==
    /\ mem.top = "dict"
    /\ mem.convs.t = "list"
    /\ mem.convs.items # <<>>
    /\ mem.convs.items[Len(mem.convs.items)] = turn

\* What a turn leaves in the history of the session
TurnRecord(q, f, r) ==
    [query |-> q, file0 |-> f, exc |-> r.context.exc, context |-> r.context.val,
     stored |-> r.ret.stored # <<>>,
     saved |-> /\ r.ret.stored # <<>>
               /\ HoldsLast(LoadMemory(r.file).val, r.ret.stored[1])]

\* A bug: the command line keeps the agent of the turn before
AgentMemoryKept(front, mem, f) == mem

\* The store of the agent that handles a turn: loaded from the file by
\* TravelAgent() in run_agent, the store of travel_agent in the bot
AgentMemory(front, mem, f) == IF front = "cli" THEN LoadMemory(f).val ELSE mem

InitSessions ==
    InitOver(FilesOf({"missing"}, {0, CONTEXT_TURNS}, {Document("dict", ListOf(<<OldTurn(1), Junk>>), "empty")}))

\* python run.py: the loop of main is entered
StartCli ==
    /\ sess.front = "none"
    /\ sess' = [sess EXCEPT !.front = "cli"]
    /\ UNCHANGED <<memVars, runVars, termVars, botVars, toolVars, cliVars, dlvVars>>

\* python bot.py: travel_agent = TravelAgent() loads the memory file
StartBot ==
    /\ sess.front = "none"
    /\ sess' = [sess EXCEPT !.front = "bot"]
    /\ memory' = LoadMemory(file).val
    /\ UNCHANGED <<file, disk, appended, memop, runVars, termVars, botVars, toolVars,
                   cliVars, dlvVars>>

\* One utterance through its front end: run_agent(user_input) on the
\* command line, travel_agent.run(user_input) in the bot
SessionTurn ==
    /\ sess.front \in {"cli", "bot"}
    /\ Len(sess.turns) < MaxTurns
    /\ \E plan \in Plans :
          LET q == Q(Len(sess.turns))
              r == RunWhole(AgentMemory(sess.front, memory, file), file, disk, q, plan)
          IN  /\ memory' = r.memory
              /\ file' = r.file
              /\ appended' = appended \o r.ret.stored
              /\ sess' = [sess EXCEPT !.turns = Append(@, TurnRecord(q, file, r))]
    /\ UNCHANGED <<disk, memop, runVars, termVars, botVars, toolVars, cliVars, dlvVars>>

\* The file system starts or stops accepting writes of the memory file
DiskChanges ==
    /\ sess.front # "none"
    /\ \E d \in Disks \ {disk} : disk' = d
    /\ UNCHANGED <<file, memory, appended, memop, runVars, termVars, frontVars>>

NextSessions ==
    \/ StartCli
    \/ StartBot
    \/ SessionTurn
    \/ DiskChanges

SpecSessions == InitSessions /\ [][NextSessions]_vars

----------------------------------------------------------------------------
(* Properties of the memory store, checked under SpecMemory *)

\* The store holds turns only: a JSON object whose "conversations" is a list of turns
HoldsTurns(mem) ==
    /\ mem.top = "dict"
    /\ mem.convs.t = "list"
    /\ \A i \in 1..Len(mem.convs.items) : mem.convs.items[i].kind = "turn"

\* C1: after more than 100 add_conversation calls on a writable file, a
\* fresh load of the file yields exactly the 100 most recently appended
\* turns, oldest first and newest last.
C1_FreshLoadYieldsLast100 ==
    (memop.op = "load" /\ disk = "ok" /\ Len(appended) > MAX_HISTORY)
    => /\ memop.exc = "none"
       /\ memop.store.top = "dict"
       /\ memop.store.convs.t = "list"
       /\ memop.store.convs.items =
             [i \in 1..MAX_HISTORY |-> appended[Len(appended) - MAX_HISTORY + i]]

\* q0..q100 were appended to an empty store: 100 turns are loaded, q1 first
C1_Witness ==
    /\ memop.op = "load"
    /\ disk = "ok"
    /\ Len(appended) = MAX_HISTORY + 1
    /\ Len(memop.store.convs.items) = MAX_HISTORY
    /\ memop.store.convs.items[1].user_query = Q(1)
    /\ memop.store.convs.items[MAX_HISTORY].user_query = Q(MAX_HISTORY)

\* C2: in the state right after any add_conversation call, whatever the
\* store held before, the conversations sequence has at most 100 entries
\* (a call that raised found no sequence to append to).
C2_AtMost100AfterAdd ==
    memop.op = "add"
    => \/ /\ memop.exc = "none"
          /\ memory.top = "dict"
          /\ memory.convs.t = "list"
          /\ Len(memory.convs.items) <= MAX_HISTORY
       \/ /\ memop.exc # "none"
          /\ (memory.top # "dict" \/ memory.convs.t # "list")

\* A store loaded with more than 100 entries is cut down to 100 by one call
C2_Witness ==
    /\ memop.op = "add"
    /\ memop.pre > MAX_HISTORY
    /\ Len(memory.convs.items) = MAX_HISTORY

\* C3: _load_memory never raises, and for a missing file, an unreadable
\* file, invalid encoding or invalid JSON it returns the empty store.
C3_LoadNeverRaises ==
    memop.op = "load"
    => /\ memop.exc = "none"
       /\ memop.src \in {"missing", "unreadable", "badenc", "badjson"}
             => memop.store = Document("dict", ListOf(<<>>), "empty")

C3_Witness ==
    /\ memop.op = "load"
    /\ memop.src = "unreadable"
    /\ memop.store.convs.items = <<>>

\* C4: add_conversation never raises for any store load produced, and the
\* in-memory sequence ends with the new turn even when the write failed.
C4_AddNeverRaises ==
    memop.op = "add"
    => /\ memop.exc = "none"
       /\ memory.convs.t = "list"
       /\ memory.convs.items # <<>>
       /\ memory.convs.items[Len(memory.convs.items)] = appended[Len(appended)]

\* The part of C4 the code keeps: on a store that holds a list, the call
\* returns and the new turn is last in memory although the write failed.
AddKeepsTurnWhenWriteFails ==
    (memop.op = "add" /\ memory.top = "dict" /\ memory.convs.t = "list")
    => /\ memop.exc = "none"
       /\ memory.convs.items # <<>>
       /\ memory.convs.items[Len(memory.convs.items)] = appended[Len(appended)]
       /\ (disk # "ok" => ~memop.saved)

RECURSIVE Rendered(_, _)
\* The turns from the i-th on, each as a user line and a summary line
Rendered(items, i) ==
    IF i > Len(items) THEN <<>>
    ELSE USER_PREFIX \o items[i].user_query \o NL
         \o AGENT_PREFIX \o items[i].summary
         \o (IF i < Len(items) THEN NL ELSE <<>>)
         \o Rendered(items, i + 1)

\* C5: get_context returns the empty text for a store without turns, and
\* for a store of n >= 1 turns the last min(n, 5) of them in stored order,
\* each as a user line followed by its summary line, joined by newlines.
C5_ContextIsLastFive ==
    (memop.op = "ctx" /\ HoldsTurns(memory))
    => /\ memop.exc = "none"
       /\ LET items == memory.convs.items
              n == Len(items)
          IN  memop.text = IF n = 0 THEN <<>>
                           ELSE Rendered(items, n - Min(n, CONTEXT_TURNS) + 1)

\* More than five turns are stored, one of them with a long response
C5_Witness ==
    /\ memop.op = "ctx"
    /\ HoldsTurns(memory)
    /\ Len(memory.convs.items) > CONTEXT_TURNS
    /\ Len(memory.convs.items[Len(memory.convs.items)].agent_response) > SUMMARY_LEN
    /\ memop.text # <<>>

\* s is the text of the first n characters of r, or all of r when shorter
IsHeadOf(s, r, n) ==
    /\ Len(s) = Min(Len(r), n)
    /\ \A j \in 1..Len(s) : s[j] = r[j]

\* C16: the turn add_conversation stores has a summary of at most 200
\* characters, the first 200 of the full response, taken when the turn is
\* appended; get_context renders the summary as stored and does not take
\* it from the response again.
C16_SummaryIsStoredHead ==
    /\ (memop.op = "add" /\ memop.exc = "none")
          => LET t == memory.convs.items[Len(memory.convs.items)]
             IN  /\ t = appended[Len(appended)]
                 /\ Len(t.summary) <= SUMMARY_LEN
                 /\ IsHeadOf(t.summary, t.agent_response, SUMMARY_LEN)
    /\ (memop.op = "ctx" /\ HoldsTurns(memory) /\ memory.convs.items # <<>>)
          => LET items == memory.convs.items
                 n == Len(items)
             IN  memop.text = Rendered(items, n - Min(n, CONTEXT_TURNS) + 1)

\* The context of a store holding a turn whose stored summary is not the
\* head of its response, and a turn appended with a response of 201 characters
C16_Witness ==
    /\ memop.op = "ctx"
    /\ HoldsTurns(memory)
    /\ Len(memory.convs.items) = 3
    /\ memory.convs.items[1] = EditedTurn
    /\ Len(memory.convs.items[3].agent_response) = SUMMARY_LEN + 1
    /\ Len(memory.convs.items[3].summary) = SUMMARY_LEN

\* new holds the entries of old in their order and unchanged, but for the
\* oldest ones, followed by one more entry
KeepsStoredTurns(old, new) ==
    /\ new # <<>>
    /\ Len(new) - 1 <= Len(old)
    /\ SubSeq(new, 1, Len(new) - 1) = SubSeq(old, Len(old) - Len(new) + 2, Len(old))

\* C17: stored turns are immutable. get_context leaves the store and the
\* file as they are; add_conversation changes no field of a turn stored
\* before and keeps the order, the only change besides the new last turn
\* being the removal of the oldest turns over the cap of 100; no operation
\* changes the reserved context map.
C17_StoredTurnsAreImmutable ==
    [][/\ memory'.context = memory.context
       /\ memop'.op = "ctx" => (memory' = memory /\ file' = file)
       /\ (memop'.op = "add" /\ memop'.exc # "none") => memory' = memory
       /\ (memop'.op = "add" /\ memop'.exc = "none")
             => /\ KeepsStoredTurns(memory.convs.items, memory'.convs.items)
                /\ Len(memory'.convs.items) = Min(Len(memory.convs.items) + 1, MAX_HISTORY)
                /\ memory'.top = memory.top
                /\ memory'.convs.t = memory.convs.t]_vars

\* An append to a store of 100 turns: the oldest is gone, the second
\* oldest is first
C17_Witness ==
    /\ memop.op = "add"
    /\ memop.exc = "none"
    /\ memop.pre = MAX_HISTORY
    /\ Len(memory.convs.items) = MAX_HISTORY
    /\ memory.convs.items[1] = OldTurn(2)
    /\ memory.convs.items[MAX_HISTORY] = appended[Len(appended)]

----------------------------------------------------------------------------
(* Properties of the conversation loop, checked under Spec *)

\* C6: when run has been called and the planner has been invoked but has
\* called no tool yet, created_files is empty, whatever the previous call
\* left in it; so it is when run ended before reaching the planner.
C6_EmptyAtRunStart ==
    /\ (pc = "planning" /\ nTools = 0) => created_files = <<>>
    /\ (pc = "idle" /\ ret.via = "ctx_exc") => created_files = <<>>

\* The previous call had left artifacts in the list
C6_Witness ==
    /\ pc = "planning"
    /\ nTools = 0
    /\ nRuns > 1
    /\ hadFiles
    /\ created_files = <<>>

\* C7: when invoke raises, run returns the error string with an empty
\* artifact list, has stored exactly one turn (raw utterance, error
\* string) and has invoked the planner once.
C7_PlannerErrorIsReported ==
    ret.via = "planner_exc"
    => /\ ret.kind = "returned"
       /\ \E msg \in PlannerErrors : ret.reply = ERROR_PREFIX \o msg
       /\ ret.files = <<>>
       /\ Len(ret.stored) = 1
       /\ ret.stored[1].user_query = ret.query
       /\ ret.stored[1].agent_response = ret.reply
       /\ invocations = 1

\* The part of C7 the code keeps: on a store whose "conversations" is a
\* list the error is reported and stored, artifacts or not.
PlannerErrorIsReportedOnAList ==
    (ret.via = "planner_exc" /\ memory.top = "dict" /\ memory.convs.t = "list")
    => /\ ret.kind = "returned"
       /\ \E msg \in PlannerErrors : ret.reply = ERROR_PREFIX \o msg
       /\ ret.files = <<>>
       /\ Len(ret.stored) = 1
       /\ ret.stored[1].user_query = ret.query
       /\ ret.stored[1].agent_response = ret.reply
       /\ invocations = 1

\* C8: whatever the planner does and whatever the memory file holds, a
\* run call that is over has returned a (reply, artifacts) pair.
C8_RunNeverRaises ==
    (pc = "idle" /\ nRuns > 0) => ret.kind = "returned"

\* The part of C8 the code keeps: a failed write of the memory file does
\* not stop the turn.
RunReturnsOnAList ==
    (pc = "idle" /\ nRuns > 0 /\ HoldsTurns(memory)) => ret.kind = "returned"

\* C9: the artifact list a successful run returns is the sequence of
\* paths saved during that run by successful write_file calls and
\* successful generate_qr calls given a filename, in call order.
C9_ArtifactsAreSavedPaths ==
    ret.via = "ok" => ret.files = produced

\* Two different files were saved, the absolute one first
C9_Witness ==
    /\ ret.via = "ok"
    /\ nTools = 2
    /\ ret.files = <<AbsPath, TOOLS_DIR \o <<"/">> \o RelPath>>

\* The planner is given q as it is on an empty store and q after the
\* rendered last turns otherwise
PlannerInput(mem, q) ==
    LET items == mem.convs.items
        n == Len(items)
    IN  IF n = 0 THEN q
        ELSE CONTEXT_HEADER \o Rendered(items, n - Min(n, CONTEXT_TURNS) + 1)
             \o QUERY_HEADER \o q

\* C15: a run that completes on its success path has appended exactly one
\* turn to the store, holding the raw utterance (not the text given to the
\* planner) and the returned reply; on a store that holds turns the planner
\* is given the utterance unchanged when the context is empty and after
\* the context otherwise.
C15_OneTurnOfRawUtterance ==
    /\ [](ret.via = "ok"
            => /\ Len(ret.stored) = 1
               /\ ret.stored[1].user_query = ret.query
               /\ ret.stored[1].agent_response = ret.reply)
    /\ []((pc = "planning" /\ HoldsTurns(memory))
            => enhanced_input = PlannerInput(memory, user_input))
    /\ [][(pc = "planning" /\ ret'.via = "ok")
            => /\ ret'.query = user_input
               /\ memory'.convs.items = Append(memory.convs.items, ret'.stored[1])
               /\ appended' = Append(appended, ret'.stored[1])]_vars

\* A run on a store of six turns returned: the planner was given more than
\* the utterance, the stored turn holds the utterance
C15_Witness ==
    /\ pc = "idle"
    /\ ret.via = "ok"
    /\ Len(memory.convs.items) = CONTEXT_TURNS + 2
    /\ Len(enhanced_input) > Len(ret.query)
    /\ memory.convs.items[CONTEXT_TURNS + 2].user_query = ret.query
    /\ memory.convs.items[CONTEXT_TURNS + 2].agent_response = ret.reply

----------------------------------------------------------------------------
(* Properties of the restricted command adapter, checked under SpecTerminal *)

\* The first whitespace-separated token of a text, <<>> for a blank text
FirstToken(s) ==
    LET word == {i \in 1..Len(s) : ~IsSpace(s[i])}
    IN  IF word = {} THEN <<>>
        ELSE LET a == CHOOSE i \in word : \A j \in word : i <= j
                 gaps == {i \in a..Len(s) : IsSpace(s[i])}
                 b == IF gaps = {} THEN Len(s)
                      ELSE (CHOOSE i \in gaps : \A j \in gaps : i <= j) - 1
             IN  SubSeq(s, a, b)

\* The token is an allowed command up to the case of its letters
AllowedIgnoringCase(tok) ==
    \E a \in ALLOWED_COMMANDS :
        /\ Len(a) = Len(tok)
        /\ \A i \in 1..Len(a) : LowerChar(tok[i]) = a[i]

\* C10 as stated: a command whose first token is not in the allow-list,
\* or that is blank, gets an error payload and no subprocess is started.
C10_RejectsTokenOutsideList ==
    /\ (termop.op = "execute" /\ FirstToken(termop.command) \notin ALLOWED_COMMANDS)
          => (termop.payload = "error" /\ ~termop.started)
    /\ \A i \in 1..Len(spawned) : FirstToken(spawned[i]) \in ALLOWED_COMMANDS

\* C10 amended: a command whose first token, lower-cased, is not in the
\* allow-list, or that is blank, gets an error payload and no subprocess
\* is started for it.
C10_RejectsLowercasedTokenOutsideList ==
    /\ (termop.op = "execute" /\ ~AllowedIgnoringCase(FirstToken(termop.command)))
          => (termop.payload = "error" /\ ~termop.started)
    /\ \A i \in 1..Len(spawned) : AllowedIgnoringCase(FirstToken(spawned[i]))

\* "su ls" was rejected after a subprocess had been started for another command
C10_Witness ==
    /\ termop.op = "execute"
    /\ termop.command = <<"s", "u">> \o SP \o LS
    /\ termop.payload = "error"
    /\ ~termop.started
    /\ Len(spawned) = 1

\* The token is a command of the tool description up to the case of its letters
DescribedIgnoringCase(tok) ==
    \E a \in DESCRIBED_COMMANDS :
        /\ Len(a) = Len(tok)
        /\ \A i \in 1..Len(a) : LowerChar(tok[i]) = a[i]

\* C11: a subprocess is started only for commands whose first token is one
\* of those the description of execute_terminal declares as the only ones
\* allowed (ls, dir, pwd, echo, cat, type, date, time), whatever the case
\* of its letters.
C11_SpawnsOnlyDescribedCommands ==
    /\ (termop.op = "execute" /\ termop.started)
          => DescribedIgnoringCase(FirstToken(termop.command))
    /\ \A i \in 1..Len(spawned) : DescribedIgnoringCase(FirstToken(spawned[i]))

\* The commands a subprocess is started for are those of ALLOWED_COMMANDS,
\* which holds cd besides the commands of the description
SpawnsOnlyListedCommands ==
    \A i \in 1..Len(spawned) : AllowedIgnoringCase(FirstToken(spawned[i]))

----------------------------------------------------------------------------
(* Properties of the chat bot, checked under SpecBot *)

\* C12: the bot processes messages one at a time against the shared agent:
\* no run call starts while another is in progress, and so the artifact
\* list a run returns holds the paths saved during that run and no others.
C12_OneRunAtATime ==
    /\ Cardinality({w \in Workers : InRun(handler[w])}) <= 1
    /\ \A w \in Workers :
          handler[w].ret.via = "ok" => handler[w].ret.files = handler[w].made

\* Two run calls are in progress on the one agent
TwoRunsOverlap ==
    \A w \in Workers : InRun(handler[w])

----------------------------------------------------------------------------
(* Properties of the tool adapters, checked under SpecAdapters *)

\* C13: every adapter call (weather, currency, web search, file read, file
\* write, restricted command, QR) returns a dict and raises nothing; the
\* dict is either an error payload whose only key is "error" or a success
\* payload without that key. An unresolvable city gives the error payload.
C13_AdaptersReturnOneKindOfPayload ==
    toolop.tool # "none"
    => /\ toolop.exc = "none"
       /\ toolop.keys # {}
       /\ "error" \in toolop.keys => toolop.keys = {"error"}
       /\ (toolop.tool = "get_weather" /\ toolop.arg = <<"no_location">>)
             => toolop.keys = {"error"}

\* The geocoder found no such city: the payload is the error message alone
C13_Witness ==
    /\ toolop.tool = "get_weather"
    /\ toolop.arg = <<"no_location">>
    /\ toolop.exc = "none"
    /\ toolop.keys = {"error"}

\* The last call was a write_file that reported success
Written == toolop.tool = "write_file" /\ "error" \notin toolop.keys

\* C20: file read, file write and QR-to-file resolve a relative path
\* against one fixed directory, whatever the working directory, and take
\* an absolute path as it is; so a read_file of the path a write_file has
\* just written returns the content written.
C20_ReadsBackWhatWasWritten ==
    [][(Written /\ toolop'.tool = "read_file" /\ toolop'.arg = toolop.arg)
          => /\ toolop'.keys = {"filepath", "content"}
             /\ toolop'.content = toolop.text]_vars

\* The part of C20 the code keeps: absolute paths, and relative paths when
\* the program was started in the directory of tools.py
ReadsBackAbsoluteOrAtHome ==
    [][(Written /\ toolop'.tool = "read_file" /\ toolop'.arg = toolop.arg
          /\ (IsAbs(toolop.arg) \/ cwd = TOOLS_DIR))
          => /\ toolop'.keys = {"filepath", "content"}
             /\ toolop'.content = toolop.text]_vars

----------------------------------------------------------------------------
(* Properties of the command-line loop, checked under SpecCLI *)

\* The line handled last was typed by the user
LineHandled == cli.did \in {"skipped", "exit", "help", "forwarded"}

\* The text between the first and the last character of s that is not
\* whitespace, <<>> for a blank s
Trimmed(s) ==
    LET word == {i \in 1..Len(s) : ~IsSpace(s[i])}
    IN  IF word = {} THEN <<>>
        ELSE SubSeq(s, CHOOSE i \in word : \A j \in word : i <= j,
                       CHOOSE i \in word : \A j \in word : i >= j)

\* C14 as stated: the loop reserves two exit keywords (exit, quit) and one
\* help keyword (help); these are never forwarded, and every other line is
\* forwarded to the conversation loop unchanged.
C14_ForwardsAllButThreeKeywords ==
    LineHandled
    => IF cli.line \in {EXIT, QUIT, HELP}
       THEN cli.did # "forwarded"
       ELSE /\ cli.did = "forwarded"
            /\ forwarded[Len(forwarded)] = cli.line

\* C14 amended: with the line stripped of surrounding whitespace, a blank
\* line is skipped, one of exit, quit, выход in any letter case ends the
\* loop, one of help, помощь in any letter case prints the help, none of
\* them being forwarded; every other line is forwarded, stripped and
\* otherwise unchanged.
C14_ForwardsStrippedNonKeywords ==
    LineHandled
    => LET t == Trimmed(cli.line)
           low == LowerText(t)
       IN  /\ t = <<>> => (cli.did = "skipped" /\ cli.pc = "reading")
           /\ low \in {EXIT, QUIT, VYHOD} => (cli.did = "exit" /\ cli.pc = "exited")
           /\ low \in {HELP, POMOSCH} => (cli.did = "help" /\ cli.pc = "reading")
           /\ (t # <<>> /\ low \notin {EXIT, QUIT, VYHOD, HELP, POMOSCH})
                 => /\ cli.did = "forwarded"
                    /\ forwarded[Len(forwarded)] = t
           /\ cli.did # "forwarded" => cli.pc # "running"

\* " hi " was forwarded as "hi" after a help keyword had been answered
C14_Witness ==
    /\ cli.did = "forwarded"
    /\ cli.line = SP \o <<"h", "i">> \o SP
    /\ forwarded = <<HELP \o <<"e", "r">>, <<"h", "i">>>>

----------------------------------------------------------------------------
(* Properties of the delivery to the chat, checked under SpecDelivery *)

\* The texts of the reply messages in the chat, in order
ReplyTexts == SelectSeq(chat, LAMBDA m : m.kind = "reply")

\* The reply has been delivered, by the first attempt or by the fallback
ReplyDelivered == dlv.how \in {"markdown", "plain"}

\* C18: once the reply has been delivered, by the edit and the sends or by
\* the plain-text fallback after one of them failed, the chat holds it as
\* messages of at most 4096 characters each whose texts, put together in
\* order, are the reply: nothing lost, nothing twice.
C18_ReplyDeliveredExactlyOnce ==
    ReplyDelivered
    => /\ \A k \in 1..Len(ReplyTexts) : Len(ReplyTexts[k].text) <= MAX_LENGTH
       /\ Flatten([k \in 1..Len(ReplyTexts) |-> ReplyTexts[k].text]) = dlv.response

\* The part of C18 the code keeps: a delivery in which no call failed
ReplyDeliveredAtFirstAttempt ==
    dlv.how = "markdown"
    => /\ \A k \in 1..Len(ReplyTexts) : Len(ReplyTexts[k].text) <= MAX_LENGTH
       /\ Flatten([k \in 1..Len(ReplyTexts) |-> ReplyTexts[k].text]) = dlv.response

\* The paths something was done for, in order
AttemptedPaths == [k \in 1..Len(attempts) |-> attempts[k].path]

\* C19: when handle_message is over for a message run returned a reply
\* for, every artifact run returned has been attempted for delivery, in
\* list order and after the reply was delivered; a failure with one
\* artifact has not stopped the attempts for the others.
C19_EveryArtifactAttempted ==
    /\ (dlv.pc = "done" /\ dlv.how # "raised") => AttemptedPaths = dlv.files
    /\ attempts # <<>> => ReplyDelivered

\* The part of C19 the code keeps: once the reply is delivered, the
\* artifacts are gone through in list order, each failure caught
ArtifactsAttemptedAfterReply ==
    /\ (dlv.pc = "done" /\ ReplyDelivered) => AttemptedPaths = dlv.files
    /\ attempts # <<>> => ReplyDelivered
    /\ \A k \in 1..Len(attempts) : attempts[k].path = dlv.files[k]

----------------------------------------------------------------------------
(* Properties of the sessions of the two front ends, checked under SpecSessions *)

\* sub is a part of text
Occurs(sub, text) ==
    \E i \in 1..(Len(text) - Len(sub) + 1) : SubSeq(text, i, i + Len(sub) - 1) = sub

\* The user line of the turn with query q
UserLine(q) == USER_PREFIX \o q

\* C21: on the command line every utterance is handled by a new agent
\* whose store is loaded from the memory file, so the context of a turn is
\* the rendering of the last (at most five) turns of the document in the
\* file when the turn starts, and a turn whose write failed appears in the
\* context of no later turn; in the bot, with its one long-lived agent,
\* such a turn does appear in the context of the turns that follow.
C21_ContextFromFileOrFromAgent ==
    \A k \in 1..Len(sess.turns) :
       LET t == sess.turns[k]
           doc == LoadMemory(t.file0).val
           items == doc.convs.items
           n == Len(items)
       IN  /\ (sess.front = "cli" /\ HoldsTurns(doc))
                 => /\ t.exc = "none"
                    /\ t.context = IF n = 0 THEN <<>>
                                   ELSE Rendered(items, n - Min(n, CONTEXT_TURNS) + 1)
           /\ \A j \in 1..(k - 1) :
                 (sess.turns[j].stored /\ ~sess.turns[j].saved)
                 => /\ sess.front = "cli"
                          => ~Occurs(UserLine(sess.turns[j].query), t.context)
                    /\ (sess.front = "bot" /\ t.exc = "none" /\ k - j <= CONTEXT_TURNS)
                          => Occurs(UserLine(sess.turns[j].query), t.context)

\* On the command line the first turn was stored but not written, the
\* second was written, and the third was given a context without the
\* first turn and with the second
C21_Witness ==
    /\ sess.front = "cli"
    /\ Len(sess.turns) = 3
    /\ sess.turns[1].stored
    /\ ~sess.turns[1].saved
    /\ sess.turns[2].saved
    /\ Occurs(UserLine(sess.turns[2].query), sess.turns[3].context)
    /\ ~Occurs(UserLine(sess.turns[1].query), sess.turns[3].context)

\* In the bot the turn that was not written is in the next turn's context
UnwrittenTurnInBotContext ==
    /\ sess.front = "bot"
    /\ Len(sess.turns) = 2
    /\ sess.turns[1].stored
    /\ ~sess.turns[1].saved
    /\ Occurs(UserLine(sess.turns[1].query), sess.turns[2].context)

=============================================================================
